---- MODULE Spec2Model ----
(***************************************************************************)
(* Model of src/main.py, the daily market briefing entrypoint:             *)
(*   fetch_index_summary  one index's summary from the data source         *)
(*   render_html          the HTML report of two lists of summaries        *)
(*   main                 parse arguments, resolve six indices, write file *)
(*                                                                         *)
(* Conventions.                                                            *)
(*   Python None is <<>> and a present value v is <<v>>, so that an empty  *)
(*   string that is present (<<"">>) differs from None.                    *)
(*   A date is its ordinal: the number of days since Epoch. strftime turns *)
(*   it into the ten characters "YYYY-MM-DD", a sequence of code points,   *)
(*   and strings that the code orders (max) are such sequences.            *)
(*   Other strings are TLA+ strings in ASCII: the index names are          *)
(*   romanised, the arrows are "UP_TRIANGLE" for U+25B2, "DOWN_TRIANGLE"   *)
(*   for U+25BC and "-" for itself.                                        *)
(*   A float is modelled by the exact number: closes are integers and      *)
(*   change_pct is a reduced fraction [num, den] with den > 0.             *)
(*   The table markup (_render_section) is not part of the document model; *)
(*   the document holds the footer lines and the warning line.             *)
(***************************************************************************)
EXTENDS Integers, Sequences, FiniteSets, TLC

VARIABLES
    pc,               \* position of the run
    args,             \* parsed command line: [output_dir, target_date]
    today,            \* datetime.now().date() as the run sees it
    fs,               \* the filesystem's behaviour: "ok", "mkdir_fails", "write_fails"
    run_date,         \* None until computed, then <<ordinal>>
    generated_at,     \* None until computed
    fetched,          \* log of the fetch_index_summary calls made
    domestic_items,   \* list of IndexSummary
    overseas_items,   \* list of IndexSummary
    html,             \* None until rendered, then <<document>>
    files,            \* output files written: set of [path, content]
    stdout            \* lines printed

vars == <<pc, args, today, fs, run_date, generated_at, fetched,
          domestic_items, overseas_items, html, files, stdout>>

---------------------------------------------------------------------------
(* Bounds of the model *)

\* rows of a table the data source returns: 0..MaxRows
MaxRows == 3

\* the dates of the rows are FirstDay .. FirstDay + MaxDay
MaxDay == 2

\* ordinal of the first row date; with Epoch 2023-11-01 day 59 is 2023-12-30,
\* so the dates cross a month and a year boundary
FirstDay == 59

\* item lists given to render_html hold 0..MaxItems items each
MaxItems == 2

---------------------------------------------------------------------------
(* Python values *)

None == <<>>

Some(v) == <<v>>

\* bool(x) of an optional str held as a TLA+ string: None and "" are falsy
Truthy(opt) == opt /= None /\ opt[1] /= ""

\* bool(x) of an optional str held as code points: None and "" are falsy
TruthyText(opt) == opt /= None /\ opt[1] /= <<>>

\* timedelta(days=40)
LookbackDays == 40

---------------------------------------------------------------------------
(* Calendar: date ordinals and strftime("%Y-%m-%d") *)

Epoch == [year |-> 2023, month |-> 11, day |-> 1]

IsLeap(y) == (y % 4 = 0 /\ y % 100 /= 0) \/ y % 400 = 0

DaysInMonth(y, m) ==
    IF m = 2 THEN (IF IsLeap(y) THEN 29 ELSE 28)
    ELSE IF m \in {4, 6, 9, 11} THEN 30 ELSE 31

\* the first day of the month after the month of d
NextMonth(d) ==
    IF d.month < 12
    THEN [year |-> d.year, month |-> d.month + 1, day |-> 1]
    ELSE [year |-> d.year + 1, month |-> 1, day |-> 1]

\* the date n days after d, the first day of a month
RECURSIVE AddDays(_, _)
AddDays(d, n) ==
    IF n < DaysInMonth(d.year, d.month)
    THEN [d EXCEPT !.day = 1 + n]
    ELSE AddDays(NextMonth(d), n - DaysInMonth(d.year, d.month))

\* date.fromordinal, counted from Epoch
FromOrdinal(n) == AddDays(Epoch, n)

\* code point of a decimal digit
Digit(k) == 48 + k

\* code point of "-"
Dash == 45

\* strftime("%Y-%m-%d") of a date ordinal, as code points
strftime(n) ==
    LET d == FromOrdinal(n) IN
    << Digit(d.year \div 1000), Digit((d.year \div 100) % 10),
       Digit((d.year \div 10) % 10), Digit(d.year % 10), Dash,
       Digit(d.month \div 10), Digit(d.month % 10), Dash,
       Digit(d.day \div 10), Digit(d.day % 10) >>

\* Python's s < t on strings: lexicographic on code points
RECURSIVE StrLess(_, _)
StrLess(s, t) ==
    IF t = <<>> THEN FALSE
    ELSE IF s = <<>> THEN TRUE
    ELSE IF s[1] /= t[1] THEN s[1] < t[1]
    ELSE StrLess(Tail(s), Tail(t))

---------------------------------------------------------------------------
(* Exceptions *)

\* classes under Exception that the model raises
ExceptionClasses == {"TimeoutError", "ConnectionError", "ZeroDivisionError", "ValueError"}

Exc(type, msg) == [type |-> type, msg |-> msg]

\* str(exc)
StrExc(exc) == exc.msg

\* float / float with divisor 0.0
ZeroDivision == Exc("ZeroDivisionError", "float division by zero")

---------------------------------------------------------------------------
(* Numbers *)

Abs(x) == IF x < 0 THEN -x ELSE x

RECURSIVE Gcd(_, _)
Gcd(a, b) == IF b = 0 THEN a ELSE Gcd(b, a % b)

\* the exact value n / d, d /= 0, reduced, with a positive denominator
Frac(n, d) ==
    LET g == Gcd(Abs(n), Abs(d))
        s == IF d < 0 THEN -1 ELSE 1
    IN  [num |-> (s * n) \div g, den |-> Abs(d) \div g]

---------------------------------------------------------------------------
(* IndexSummary and the data source *)

IndexSummary(name, close, change_pct, arrow, color_class, base_date, error) ==
    [name |-> name, close |-> close, change_pct |-> change_pct, arrow |-> arrow,
     color_class |-> color_class, base_date |-> base_date, error |-> error]

\* what fdr.DataReader does on one call: it raises exc, or returns a table
\* with the given columns whose rows are [date, Close], Close None for NaN
Raises(exc) == [exc |-> Some(exc), columns |-> {}, rows |-> <<>>]

DataFrame(columns, rows) == [exc |-> None, columns |-> columns, rows |-> rows]

\* the arguments of the fdr.DataReader call
DataReaderRequest(symbol, d) ==
    [symbol |-> symbol, start |-> strftime(d - LookbackDays), end |-> strftime(d)]

\* how a call ends: it returns value, or exc propagates out of it
Returned(value) == [raised |-> FALSE, exc |-> None, value |-> Some(value)]

Raised(exc) == [raised |-> TRUE, exc |-> Some(exc), value |-> None]

---------------------------------------------------------------------------
(* fetch_index_summary *)

NotAvailableNotEnoughData(name, error) ==
    IndexSummary(name, None, None, "-", "na", None, Some("not-enough-data"))

\* the summary of the three failure returns
NotAvailable(name, error) ==
    IndexSummary(name, None, None, "-", "na", None, Some(error))

\* df["Close"].dropna()
dropna(rows) == SelectSeq(rows, LAMBDA r : r.Close /= None)

BeforeRunDateInclusive(rows, d) == SelectSeq(rows, LAMBDA r : r.date <= d)

\* close_series[close_series.index.date < run_date]
BeforeRunDate(rows, d) == SelectSeq(rows, LAMBDA r : r.date < d)

\* close_series.tail(n): the last n rows in row order
tail(rows, n) ==
    IF Len(rows) <= n THEN rows ELSE SubSeq(rows, Len(rows) - n + 1, Len(rows))

ArrowOfNonNegative(change_pct) ==
    IF change_pct.num >= 0 THEN [arrow |-> "UP_TRIANGLE", color_class |-> "up"]
    ELSE [arrow |-> "DOWN_TRIANGLE", color_class |-> "down"]

\* the if / elif / else on change_pct
ArrowOf(change_pct) ==
    IF change_pct.num > 0 THEN [arrow |-> "UP_TRIANGLE", color_class |-> "up"]
    ELSE IF change_pct.num < 0 THEN [arrow |-> "DOWN_TRIANGLE", color_class |-> "down"]
    ELSE [arrow |-> "-", color_class |-> "flat"]

SuccessSummaryNoDate(name, prev_close, close, last_date) ==
    LET change_pct == Frac((close - prev_close) * 100, prev_close)
        a == ArrowOf(change_pct)
    IN  IndexSummary(name, Some(close), Some(change_pct), a.arrow, a.color_class,
                     None, None)

\* the summary of the success return; prev_close /= 0
SuccessSummary(name, prev_close, close, last_date) ==
    LET change_pct == Frac((close - prev_close) * 100, prev_close)
        a == ArrowOf(change_pct)
    IN  IndexSummary(name, Some(close), Some(change_pct), a.arrow, a.color_class,
                     Some(strftime(last_date)), None)

\* the body of the try block, given what the data source does
TryBody(name, resp, d) ==
    IF resp.exc /= None THEN Raised(resp.exc[1])
    ELSE IF "Close" \notin resp.columns
    THEN Returned(NotAvailable(name, "not-enough-data"))
    ELSE LET close_series == BeforeRunDate(dropna(resp.rows), d)
             last_two == tail(close_series, 2)
         IN  IF Len(last_two) < 2
             THEN Returned(NotAvailable(name, "not-enough-close-values"))
             ELSE LET prev_close == last_two[1].Close[1]
                      close == last_two[2].Close[1]
                  IN  IF prev_close = 0 THEN Raised(ZeroDivision)
                      ELSE Returned(SuccessSummary(name, prev_close, close,
                                                   last_two[2].date))

CatchesProviderErrors(exc) == exc.type \in {"TimeoutError", "ConnectionError"}

\* except Exception
Catches(exc) == exc.type \in ExceptionClasses

\* fetch_index_summary(name, symbol, run_date), resp being what the data
\* source does when called
fetch_index_summary(name, symbol, d, resp) ==
    LET r == TryBody(name, resp, d) IN
    IF r.raised /\ Catches(r.exc[1])
    THEN Returned(NotAvailable(name, StrExc(r.exc[1])))
    ELSE r

\* the record of one call in the log
Call(name, symbol, d, resp) ==
    [name |-> name, symbol |-> symbol, run_date |-> d,
     request |-> DataReaderRequest(symbol, d), response |-> resp,
     outcome |-> fetch_index_summary(name, symbol, d, resp)]

---------------------------------------------------------------------------
(* The configured indices *)

\* romanised: KOSPI, KOSDAQ
DOMESTIC ==
    << [name |-> "KOSPI", symbol |-> "KS11"], [name |-> "KOSDAQ", symbol |-> "KQ11"] >>

\* romanised: Dow Industrial, Nasdaq Composite, Shanghai Composite, Nikkei 225
OVERSEAS ==
    << [name |-> "DOW", symbol |-> "DJI"], [name |-> "NASDAQ", symbol |-> "IXIC"],
       [name |-> "SHANGHAI", symbol |-> "SSEC"], [name |-> "NIKKEI225", symbol |-> "N225"] >>

INDICES == DOMESTIC \o OVERSEAS

---------------------------------------------------------------------------
(* Inputs *)

RowDates == FirstDay .. (FirstDay + MaxDay)

RunDates == (FirstDay + 1) .. (FirstDay + MaxDay + 1)

CloseValues == {0, 1, 2}

OptCloses == {None} \cup {Some(v) : v \in CloseValues}

\* what a provider failure raises
ProviderErrors == {Exc("TimeoutError", ""), Exc("ConnectionError", "network unreachable")}

\* tables of up to MaxRows rows, in any row order, one row per date
Tables ==
    UNION { { [i \in 1..n |-> [date |-> ds[i], Close |-> cs[i]]] :
                ds \in {f \in [1..n -> RowDates] :
                           \A i, j \in 1..n : i /= j => f[i] /= f[j]},
                cs \in [1..n -> OptCloses] } : n \in 0..MaxRows }

\* everything the data source may do on a call
Responses ==
    {Raises(e) : e \in ProviderErrors}
    \cup {DataFrame({"Open"}, <<>>)}
    \cup {DataFrame({"Open", "Close"}, rows) : rows \in Tables}

\* a few things the data source may do on a call of a run dated d: a
\* failure without a message, one with a message, a table without closes,
\* a table with one close, and full tables ending on each date before d
SampleResponses(d) ==
    { Raises(Exc("TimeoutError", "")),
      Raises(Exc("ConnectionError", "network unreachable")),
      DataFrame({"Open"}, <<>>),
      DataFrame({"Open", "Close"}, << [date |-> d - 1, Close |-> Some(1)] >>) }
    \cup { DataFrame({"Open", "Close"},
                     << [date |-> e - 1, Close |-> Some(1)],
                        [date |-> e, Close |-> Some(2)] >>) :
             e \in {x \in RowDates : FirstDay < x /\ x < d} }

\* the summaries fetch_index_summary returns for them
SampleItems(name, d) ==
    { fetch_index_summary(name, "", d, resp).value[1] : resp \in SampleResponses(d) }

\* the last run date
LastRunDate == FirstDay + MaxDay + 1

\* lists of up to MaxItems items whose names are those of indices
ItemLists(indices) ==
    UNION { { [i \in 1..n |-> f[i]] :
                f \in { g \in [1..n -> UNION {SampleItems(indices[k].name, LastRunDate) :
                                                k \in 1..Len(indices)}] :
                          \A i \in 1..n :
                              g[i].name = indices[((i - 1) % Len(indices)) + 1].name } } :
            n \in 0..MaxItems }

---------------------------------------------------------------------------
(* render_html *)

\* "확인 불가" (cannot be confirmed), as code points
Unavailable == <<54869, 51064, 32, 48520, 44032>>

\* "자동(오늘 실행)" (automatic, run today), as code points
Automatic == <<51088, 46041, 40, 50724, 45720, 32, 49892, 54665, 41>>

\* a <p class=...> line of the body: a footer line has a label and a text,
\* the warning line has the "name: error" details
Paragraph(class, label, text, details) ==
    [class |-> class, label |-> label, text |-> text, details |-> details]

first(texts) == texts[1]

\* max(texts) of a non-empty list of strings: the first of its greatest items
max(texts) ==
    texts[CHOOSE k \in DOMAIN texts :
              /\ \A j \in DOMAIN texts : ~StrLess(texts[k], texts[j])
              /\ \A j \in 1..(k - 1) : StrLess(texts[j], texts[k])]

\* the condition of [item for item in all_items if item.error]
IsFailed(item) == Truthy(item.error)

render_html(domestic, overseas, generated, requested_target_date) ==
    LET all_items == domestic \o overseas
        with_date == SelectSeq(all_items, LAMBDA item : TruthyText(item.base_date))
        base_dates == [i \in 1..Len(with_date) |-> with_date[i].base_date[1]]
        base_date_text == IF base_dates /= <<>> THEN max(base_dates) ELSE Unavailable
        request_date_text ==
            IF TruthyText(requested_target_date) THEN requested_target_date[1]
            ELSE Automatic
        failed_items == SelectSeq(all_items, IsFailed)
        details == [i \in 1..Len(failed_items) |->
                      <<failed_items[i].name, failed_items[i].error[1]>>]
        warning == IF failed_items /= <<>>
                   THEN << Paragraph("warning", "", <<>>, details) >>
                   ELSE <<>>
    IN  [title |-> "market-summary",
         body |-> << Paragraph("meta", "requested", request_date_text, <<>>),
                     Paragraph("meta", "base", base_date_text, <<>>),
                     Paragraph("meta", "generated", generated, <<>>) >> \o warning]

\* datetime.now().strftime("%Y-%m-%d %H:%M"); the time of day is not modelled
GeneratedAt(d) == strftime(d)

---------------------------------------------------------------------------
(* One call of fetch_index_summary on any input *)

Idle ==
    /\ args = [output_dir |-> "output", target_date |-> None]
    /\ today \in RunDates
    /\ fs = "ok"
    /\ generated_at = None
    /\ fetched = <<>>
    /\ domestic_items = <<>>
    /\ overseas_items = <<>>
    /\ html = None
    /\ files = {}
    /\ stdout = <<>>

FetchInit ==
    /\ Idle
    /\ pc = "call"
    /\ run_date = Some(today)

FetchCall ==
    /\ pc = "call"
    /\ \E ix \in 1..Len(INDICES), resp \in Responses :
          fetched' = << Call(INDICES[ix].name, INDICES[ix].symbol, run_date[1], resp) >>
    /\ pc' = "returned"
    /\ UNCHANGED <<args, today, fs, run_date, generated_at, domestic_items,
                   overseas_items, html, files, stdout>>

FetchSpec == FetchInit /\ [][FetchCall]_vars

---------------------------------------------------------------------------
(* One call of render_html on any two item lists *)

RenderInit ==
    /\ Idle
    /\ today = LastRunDate
    /\ pc = "call"
    /\ run_date = Some(today)

RenderCall ==
    /\ pc = "call"
    /\ \E dom \in ItemLists(DOMESTIC), ovs \in ItemLists(OVERSEAS),
          target \in {None, Some(strftime(today))} :
          /\ domestic_items' = dom
          /\ overseas_items' = ovs
          /\ args' = [args EXCEPT !.target_date = target]
          /\ generated_at' = Some(GeneratedAt(today))
          /\ html' = Some(render_html(dom, ovs, GeneratedAt(today), target))
    /\ pc' = "returned"
    /\ UNCHANGED <<today, fs, run_date, fetched, files, stdout>>

RenderSpec == RenderInit /\ [][RenderCall]_vars

---------------------------------------------------------------------------
(* main *)

\* --target-date values: absent, empty, a date, and text that is no date
BadDate == <<110, 111, 119>>

TargetDates == {None, Some(<<>>), Some(strftime(FirstDay + 1)), Some(BadDate)}

\* datetime.strptime(text, "%Y-%m-%d").date(): the date whose form text is,
\* or ValueError (forms without zero padding are not modelled)
strptime(text) ==
    IF \E d \in RowDates \cup RunDates : strftime(d) = text
    THEN Returned(CHOOSE d \in RowDates \cup RunDates : strftime(d) = text)
    ELSE Raised(Exc("ValueError", "time data does not match format"))

_parse_target_date(target_date) ==
    IF ~TruthyText(target_date) THEN Returned(None)
    ELSE LET r == strptime(target_date[1]) IN
         IF r.raised THEN r ELSE Returned(r.value)

\* output_dir / f"{filename_date}_brief.html"
OutputPath(output_dir, d) ==
    [dir |-> output_dir, filename_date |-> strftime(d), suffix |-> "_brief.html"]

MainInit ==
    /\ pc = "start"
    /\ args \in [output_dir : {"output"}, target_date : TargetDates]
    /\ today = LastRunDate
    /\ fs \in {"ok", "mkdir_fails", "write_fails"}
    /\ run_date = None
    /\ generated_at = None
    /\ fetched = <<>>
    /\ domestic_items = <<>>
    /\ overseas_items = <<>>
    /\ html = None
    /\ files = {}
    /\ stdout = <<>>

\* parse_args, run_date and generated_at
ParseArgs ==
    /\ pc = "start"
    /\ LET r == _parse_target_date(args.target_date) IN
       IF r.raised
       THEN /\ pc' = "failed"
            /\ UNCHANGED <<run_date, generated_at>>
       ELSE /\ run_date' = IF r.value[1] /= None THEN r.value[1] ELSE Some(today)
            /\ generated_at' = Some(GeneratedAt(today))
            /\ pc' = "fetch"
    /\ UNCHANGED <<args, today, fs, fetched, domestic_items, overseas_items,
                   html, files, stdout>>

\* what the data source may do on a call of the run dated d: fail, return
\* a table without closes, one with a single close, or one with the closes
\* of the two days before d
MainResponses(d) ==
    { Raises(Exc("TimeoutError", "")),
      DataFrame({"Open"}, <<>>),
      DataFrame({"Open", "Close"}, << [date |-> d - 1, Close |-> Some(1)] >>),
      DataFrame({"Open", "Close"}, << [date |-> d - 2, Close |-> Some(1)],
                                      [date |-> d - 1, Close |-> Some(2)] >>) }

\* where the run stands after the call of index ix has ended
AfterFetchStopOnError(ix, call) ==
    IF call.outcome.raised \/ call.outcome.value[1].error /= None THEN "failed"
    ELSE IF ix = Len(INDICES) THEN "mkdir" ELSE "fetch"

AfterFetch(ix, call) ==
    IF call.outcome.raised THEN "failed"
    ELSE IF ix = Len(INDICES) THEN "mkdir" ELSE "fetch"

\* the next fetch_index_summary call of the two list displays
Fetch ==
    /\ pc = "fetch"
    /\ LET ix == Len(fetched) + 1 IN
       \E resp \in MainResponses(run_date[1]) :
          LET call == Call(INDICES[ix].name, INDICES[ix].symbol, run_date[1], resp) IN
          /\ fetched' = Append(fetched, call)
          /\ pc' = AfterFetch(ix, call)
          /\ IF call.outcome.raised
             THEN UNCHANGED <<domestic_items, overseas_items>>
             ELSE IF ix <= Len(DOMESTIC)
             THEN /\ domestic_items' = Append(domestic_items, call.outcome.value[1])
                  /\ UNCHANGED overseas_items
             ELSE /\ overseas_items' = Append(overseas_items, call.outcome.value[1])
                  /\ UNCHANGED domestic_items
    /\ UNCHANGED <<args, today, fs, run_date, generated_at, html, files, stdout>>

\* output_dir.mkdir(parents=True, exist_ok=True)
Mkdir ==
    /\ pc = "mkdir"
    /\ pc' = IF fs = "mkdir_fails" THEN "failed" ELSE "render"
    /\ UNCHANGED <<args, today, fs, run_date, generated_at, fetched,
                   domestic_items, overseas_items, html, files, stdout>>

Render ==
    /\ pc = "render"
    /\ html' = Some(render_html(domestic_items, overseas_items, generated_at[1],
                                args.target_date))
    /\ pc' = "write"
    /\ UNCHANGED <<args, today, fs, run_date, generated_at, fetched,
                   domestic_items, overseas_items, files, stdout>>

\* output_path.write_text(html, encoding="utf-8")
WriteText ==
    /\ pc = "write"
    /\ IF fs = "write_fails"
       THEN /\ pc' = "failed"
            /\ UNCHANGED files
       ELSE /\ files' = {f \in files : f.path /= OutputPath(args.output_dir, run_date[1])}
                        \cup {[path |-> OutputPath(args.output_dir, run_date[1]),
                               content |-> html[1]]}
            /\ pc' = "print"
    /\ UNCHANGED <<args, today, fs, run_date, generated_at, fetched,
                   domestic_items, overseas_items, html, stdout>>

\* print(f"Generated: {output_path}")
PrintGenerated ==
    /\ pc = "print"
    /\ stdout' = Append(stdout, [text |-> "Generated: ",
                                 path |-> OutputPath(args.output_dir, run_date[1])])
    /\ pc' = "done"
    /\ UNCHANGED <<args, today, fs, run_date, generated_at, fetched,
                   domestic_items, overseas_items, html, files>>

Next == ParseArgs \/ Fetch \/ Mkdir \/ Render \/ WriteText \/ PrintGenerated

Spec == MainInit /\ [][Next]_vars

\* the run is one sequential thread: it takes its next step while it has one
FairSpec == Spec /\ WF_vars(Next)

---------------------------------------------------------------------------
(* Properties of fetch_index_summary, checked under FetchSpec *)

Calls == {fetched[i] : i \in DOMAIN fetched}

AllItems == domestic_items \o overseas_items

\* the table of call c has a Close column
HasCloseField(c) == c.response.exc = None /\ "Close" \in c.response.columns

\* the rows of call c that qualify: a close that is not missing, dated
\* strictly before the run date
Qualifying(c) ==
    {i \in DOMAIN c.response.rows :
        c.response.rows[i].Close /= None /\ c.response.rows[i].date < c.run_date}

AllAbsent(s) == s.close = None /\ s.change_pct = None /\ s.base_date = None

AllPresent(s) == s.close /= None /\ s.change_pct /= None /\ s.base_date /= None

IsUnavailableWith(s, error) ==
    AllAbsent(s) /\ s.arrow = "-" /\ s.color_class = "na" /\ s.error = Some(error)

\* the greatest element of a non-empty set of row positions
Last(S) == CHOOSE i \in S : \A j \in S : j <= i

\* of the qualifying rows of c, the one with the latest date
Latest(c, S) ==
    CHOOSE i \in S : \A j \in S : c.response.rows[j].date <= c.response.rows[i].date

\* the table of c divides by zero: the earlier of the last two qualifying
\* rows has close 0
DividesByZero(c) ==
    /\ HasCloseField(c)
    /\ Cardinality(Qualifying(c)) >= 2
    /\ c.response.rows[Last(Qualifying(c) \ {Last(Qualifying(c))})].Close = Some(0)

C2_ExcludesRunDate ==
    \A c \in Calls :
        (~c.outcome.raised /\ c.outcome.value[1].close /= None) =>
            LET s == c.outcome.value[1]
                rows == c.response.rows
            IN  /\ \E i \in Qualifying(c) : \E j \in Qualifying(c) \ {i} :
                      /\ s.close = rows[i].Close
                      /\ s.base_date = Some(strftime(rows[i].date))
                      /\ rows[j].Close /= Some(0)
                      /\ s.change_pct =
                            Some(Frac((rows[i].Close[1] - rows[j].Close[1]) * 100,
                                      rows[j].Close[1]))
                /\ StrLess(s.base_date[1], strftime(c.run_date))

\* a successful call whose table ends with a row of the run date
C2_Witness ==
    \E c \in Calls :
        /\ ~c.outcome.raised
        /\ c.outcome.value[1].close /= None
        /\ LET rows == c.response.rows IN
           /\ rows[Len(rows)].date = c.run_date
           /\ rows[Len(rows)].Close /= None

\* C5: arrow and color_class follow the sign of change_pct: up for a rise,
\* down for a fall, flat for no change; and the class is na, with arrow "-",
\* exactly when close is absent.
C5_ArrowMatchesSign ==
    \A c \in Calls :
        ~c.outcome.raised =>
            LET s == c.outcome.value[1] IN
            /\ s.change_pct /= None =>
                  /\ s.change_pct[1].num > 0 =>
                        (s.arrow = "UP_TRIANGLE" /\ s.color_class = "up")
                  /\ s.change_pct[1].num < 0 =>
                        (s.arrow = "DOWN_TRIANGLE" /\ s.color_class = "down")
                  /\ s.change_pct[1].num = 0 =>
                        (s.arrow = "-" /\ s.color_class = "flat")
            /\ s.color_class = "na" <=> s.close = None
            /\ s.close = None => s.arrow = "-"

C5_Witness ==
    \E c \in Calls :
        /\ ~c.outcome.raised
        /\ c.outcome.value[1].change_pct /= None
        /\ c.outcome.value[1].change_pct[1].num = 0
        /\ c.outcome.value[1].color_class = "flat"

\* C6: every summary returned has close, change_pct and base_date all
\* present or all absent.
C6_AllOrNothing ==
    \A c \in Calls :
        ~c.outcome.raised =>
            (AllPresent(c.outcome.value[1]) \/ AllAbsent(c.outcome.value[1]))

C6_Witness ==
    \E c \in Calls :
        /\ ~c.outcome.raised
        /\ AllPresent(c.outcome.value[1])
        /\ c.outcome.value[1].close = Some(0)

\* C7: a table with a Close column and fewer than two qualifying rows gives
\* error "not-enough-close-values" with close, change_pct and base_date
\* absent, also when it has more rows that are dated on or after the run
\* date or have no close.
C7_NotEnoughCloseValues ==
    \A c \in Calls :
        (HasCloseField(c) /\ Cardinality(Qualifying(c)) < 2) =>
            /\ ~c.outcome.raised
            /\ IsUnavailableWith(c.outcome.value[1], "not-enough-close-values")

\* three rows, one qualifying, one of the run date, one without a close
C7_Witness ==
    \E c \in Calls :
        /\ HasCloseField(c)
        /\ Len(c.response.rows) = 3
        /\ Cardinality(Qualifying(c)) = 1
        /\ \E i \in DOMAIN c.response.rows :
              c.response.rows[i].Close /= None /\ c.response.rows[i].date >= c.run_date
        /\ \E i \in DOMAIN c.response.rows : c.response.rows[i].Close = None
        /\ ~c.outcome.raised
        /\ c.outcome.value[1].error = Some("not-enough-close-values")

\* C10: of a table with two or more qualifying rows, in any row order, the
\* summary takes the two with the latest dates: close and base_date from
\* the later, change_pct = (close - prev_close) / prev_close * 100 with
\* prev_close from the earlier (stated for tables without a close of 0,
\* where the division is defined).
C10_LatestTwoByDate ==
    \A c \in Calls :
        (/\ HasCloseField(c)
         /\ Cardinality(Qualifying(c)) >= 2
         /\ \A i \in Qualifying(c) : c.response.rows[i].Close /= Some(0)) =>
            LET rows == c.response.rows
                l == Latest(c, Qualifying(c))
                p == Latest(c, Qualifying(c) \ {l})
            IN  /\ ~c.outcome.raised
                /\ c.outcome.value[1].close = rows[l].Close
                /\ c.outcome.value[1].base_date = Some(strftime(rows[l].date))
                /\ c.outcome.value[1].change_pct =
                      Some(Frac((rows[l].Close[1] - rows[p].Close[1]) * 100,
                                rows[p].Close[1]))

---------------------------------------------------------------------------
(* Properties of render_html, checked under RenderSpec *)

\* the text of the footer line with the given label
FooterText(doc, label) ==
    LET k == CHOOSE k \in DOMAIN doc.body :
                 doc.body[k].class = "meta" /\ doc.body[k].label = label
    IN  doc.body[k].text

WarningLines(doc) == SelectSeq(doc.body, LAMBDA para : para.class = "warning")

\* the base dates of the items that have one
BaseDates == {AllItems[i].base_date[1] :
                i \in {k \in DOMAIN AllItems : AllItems[k].base_date /= None}}

\* C8: the as-of trading date of the document is the lexicographically
\* greatest base_date of the domestic and overseas items that have one, and
\* it is the "unavailable" text exactly when no item has a base_date.
C8_AsOfIsMaxBaseDate ==
    html /= None =>
        LET asof == FooterText(html[1], "base") IN
        /\ asof = Unavailable <=> BaseDates = {}
        /\ BaseDates /= {} =>
              /\ asof \in BaseDates
              /\ \A d \in BaseDates : ~StrLess(asof, d)

\* the greatest base date, of another year than the first, is an overseas item's
C8_Witness ==
    /\ html /= None
    /\ Len(domestic_items) = 2
    /\ Len(overseas_items) = 2
    /\ domestic_items[1].base_date = Some(strftime(FirstDay + 1))
    /\ domestic_items[2].base_date = None
    /\ overseas_items[1].base_date = Some(strftime(FirstDay + 2))
    /\ overseas_items[2].base_date = Some(strftime(FirstDay + 1))
    /\ FooterText(html[1], "base") = strftime(FirstDay + 2)

\* C9: the document has one warning line when an item carries an error, and
\* the line lists the name and error of the items that carry one, domestic
\* first, in list order, and of no other; with no error there is no
\* warning line.
C9_WarningListsEveryError ==
    html /= None =>
        LET failed == SelectSeq(AllItems, LAMBDA item : item.error /= None)
            lines == WarningLines(html[1])
        IN  IF failed = <<>> THEN lines = <<>>
            ELSE /\ Len(lines) = 1
                 /\ lines[1].details =
                       [i \in 1..Len(failed) |-> <<failed[i].name, failed[i].error[1]>>]

---------------------------------------------------------------------------
(* Properties of main, checked under Spec and FairSpec *)

\* C3: in the document of a run, every index whose resolution failed is
\* named, with its error, on a warning line.
C3_FailuresVisible ==
    html /= None =>
        \A i \in DOMAIN fetched :
            LET s == fetched[i].outcome.value[1] IN
            s.error /= None =>
                \E k \in DOMAIN html[1].body :
                    /\ html[1].body[k].class = "warning"
                    /\ \E j \in DOMAIN html[1].body[k].details :
                          html[1].body[k].details[j] = <<s.name, s.error[1]>>

\* the calls made so far are those of the configured indices, in order, each
\* returned, and each item is the summary of its own call alone
Isolated ==
    /\ Len(fetched) <= Len(INDICES)
    /\ Len(AllItems) = Len(fetched)
    /\ \A i \in DOMAIN fetched :
          /\ fetched[i].name = INDICES[i].name
          /\ fetched[i].symbol = INDICES[i].symbol
          /\ fetched[i].run_date = run_date[1]
          /\ ~fetched[i].outcome.raised
          /\ AllItems[i] =
                fetch_index_summary(INDICES[i].name, INDICES[i].symbol, run_date[1],
                                    fetched[i].response).value[1]
    /\ Len(domestic_items) <= Len(DOMESTIC)

\* the run resolved all six indices, wrote the document and printed its path
Finished ==
    /\ pc = "done"
    /\ Len(fetched) = Len(INDICES)
    /\ Len(domestic_items) = Len(DOMESTIC)
    /\ Len(overseas_items) = Len(OVERSEAS)
    /\ html /= None
    /\ [path |-> OutputPath(args.output_dir, run_date[1]), content |-> html[1]] \in files
    /\ stdout = << [text |-> "Generated: ",
                    path |-> OutputPath(args.output_dir, run_date[1])] >>

\* C4: whichever of the six data source calls fail, the run resolves the six
\* indices in the declared order, each summary that of its own call, and, the
\* arguments parsed and the filesystem working, it ends having written the
\* document and printed its path.
C4_FailuresNonFatal == (pc = "fetch" /\ fs = "ok") ~> (Finished /\ Isolated)

\* a finished run in which some calls failed and some did not
C4_Witness ==
    /\ Finished
    /\ \E i \in DOMAIN fetched : fetched[i].response.exc /= None
    /\ \E i \in DOMAIN AllItems : AllItems[i].error = Some("not-enough-data")
    /\ \E i \in DOMAIN AllItems : AllItems[i].error = None

====
